---- MODULE Spec2Model ----
(***************************************************************************)
(* popevo.py: a population of organisms on a fitness landscape.            *)
(*                                                                         *)
(* Organisms are identified by their creation index (the identity of the   *)
(* proxy object).  A raycast onto the landscape is an input of the model:  *)
(* a record [hit, z] as returned by landscape.ray_cast.  Heights are small *)
(* integers, a selection fraction is a rational [num, den].  Keyframes and *)
(* collection links of the host scene are not modelled.                    *)
(***************************************************************************)
EXTENDS Integers, Sequences, FiniteSets, TLC

VARIABLES organisms,   \* every organism constructed so far, by identity
          population,  \* pop.population: sequence of organism identities
          proxies,     \* number of proxy objects in the scene
          status,      \* "running", "exit_landscape", "exit_fraction", "IndexError"
          ctor,        \* bookkeeping of the last organism.__init__ call
          lastOp,      \* the last operation, its arguments and the state before it
          died,        \* identities handed to die during the last operation
          pc,          \* position of the calling script
          iter,        \* driver loop variable i
          kframe,      \* driver variable kframe
          rng,         \* state of the random module (driver)
          nops         \* number of operations performed on the pop object

vars == <<organisms, population, proxies, status, ctor, lastOp, died, pc, iter, kframe, rng, nops>>

-----------------------------------------------------------------------------
(* Bounds of the exploration *)
MaxFounders == 3
MaxKids == 2
MaxOrgs == 6
MaxOps == 4
MaxHeight == 1
NumSeeds == 10

Heights == 0..MaxHeight
Rays == [hit : {TRUE}, z : Heights] \cup [hit : {FALSE}, z : {0}]
Fractions == { [num |-> -1, den |-> 10], [num |-> 0, den |-> 1],
               [num |-> 1, den |-> 2], [num |-> 8, den |-> 10],
               [num |-> 1, den |-> 1], [num |-> 15, den |-> 10] }

-----------------------------------------------------------------------------
(* Python helpers *)

\* the element of a one-element set; Only({e(x) : x \in {v}}) is e with x
\* bound to the value of v
Only(S) == CHOOSE x \in S : TRUE

\* int(x) of the product num*n/den: truncation toward zero
PyInt(p, den) == IF p >= 0 THEN p \div den ELSE -((-p) \div den)

\* list.pop(i), i a 1-based position
ListPop_Last(w, i) ==
  [w EXCEPT !.population = SubSeq(@, 1, Len(@) - 1)]

ListPop(w, i) ==
  [w EXCEPT !.population = SubSeq(@, 1, i - 1) \o SubSeq(@, i + 1, Len(@))]

\* the members of s with fitness at most h, lower fitness first, equal
\* fitness in the order of s
RECURSIVE SortUpTo(_, _, _)
SortUpTo(orgs, s, h) ==
  IF h < 0 THEN <<>>
  ELSE SortUpTo(orgs, s, h - 1) \o SelectSeq(s, LAMBDA id : orgs[id].fitness = h)

\* list.sort(key=lambda ob: ob.fitness): stable, ascending
Sort(orgs, s) == Only({SortUpTo(o, t, MaxHeight) : o \in {orgs}, t \in {s}})

-----------------------------------------------------------------------------
(* class organism *)
(* A loop of passes lo..hi is evaluated as its first half followed by its   *)
(* second half, the passes in the order of the code; the state after the   *)
(* first half is bound as a value (first) before the second half runs.     *)

OrganismInit_ProxyFirst(w, ray, parent) ==
  LET c == [before |-> w.proxies, hit |-> ray.hit] IN
  IF ray.hit
  THEN [w EXCEPT !.organisms = Append(@, [fitness |-> ray.z, reproduced |-> FALSE,
                                           hidden |-> FALSE, dieCalls |-> 0,
                                           reproCalls |-> 0, parent |-> parent]),
                 !.proxies = @ + 1,
                 !.ctor = c]
  ELSE [w EXCEPT !.proxies = @ + 1, !.status = "exit_landscape", !.ctor = c]

OrganismInit(w, ray, parent) ==
  LET c == [before |-> w.proxies, hit |-> ray.hit] IN
  IF ray.hit
  THEN [w EXCEPT !.organisms = Append(@, [fitness |-> ray.z, reproduced |-> FALSE,
                                           hidden |-> FALSE, dieCalls |-> 0,
                                           reproCalls |-> 0, parent |-> parent]),
                 !.proxies = @ + 1,
                 !.ctor = c]
  ELSE [w EXCEPT !.status = "exit_landscape", !.ctor = c]

\* one pass of the loop of organism.reproduce on [w, out]
ReproduceStep(r, id, ray) ==
  IF r.w.status # "running" THEN r
  ELSE Only({ IF w2.status # "running" THEN [w |-> w2, out |-> r.out]
              ELSE [w |-> w2, out |-> Append(r.out, Len(w2.organisms))] :
              w2 \in {OrganismInit(r.w, ray, id)} })

\* for i in range(N), passes lo..hi in order
RECURSIVE ReproduceLoop(_, _, _, _, _)
ReproduceLoop(r, id, rays, lo, hi) ==
  IF lo > hi THEN r
  ELSE IF lo = hi THEN ReproduceStep(r, id, rays[lo])
  ELSE LET mid == (lo + hi) \div 2 IN
       Only({ IF first.w.status # "running" THEN first
              ELSE ReproduceLoop(first, id, rays, mid + 1, hi) :
              first \in {ReproduceLoop(r, id, rays, lo, mid)} })

OrganismReproduce_NoFlag(w, id, rays) ==
  ReproduceLoop([w |-> [w EXCEPT !.organisms[id].reproCalls = @ + 1], out |-> <<>>],
                id, rays, 1, Len(rays))

OrganismReproduce(w, id, rays) ==
  Only({ IF r.w.status # "running" THEN r
         ELSE [w |-> [r.w EXCEPT !.organisms[id].reproduced = TRUE], out |-> r.out] :
         r \in {ReproduceLoop([w |-> [w EXCEPT !.organisms[id].reproCalls = @ + 1],
                               out |-> <<>>], id, rays, 1, Len(rays))} })

OrganismDie(w, id) ==
  [w EXCEPT !.organisms[id].hidden = TRUE,
            !.organisms[id].dieCalls = @ + 1,
            !.died = Append(@, id)]

-----------------------------------------------------------------------------
(* class pop *)

\* one pass of the loop of pop.__init__
PopInitStep(w, ray) ==
  IF w.status # "running" THEN w
  ELSE Only({ IF w2.status # "running" THEN w2
              ELSE [w2 EXCEPT !.population = Append(@, Len(w2.organisms))] :
              w2 \in {OrganismInit(w, ray, 0)} })

\* for i in range(N), passes lo..hi in order
RECURSIVE PopInitLoop(_, _, _, _)
PopInitLoop(w, rays, lo, hi) ==
  IF lo > hi THEN w
  ELSE IF lo = hi THEN PopInitStep(w, rays[lo])
  ELSE LET mid == (lo + hi) \div 2 IN
       Only({ IF first.status # "running" THEN first
              ELSE PopInitLoop(first, rays, mid + 1, hi) :
              first \in {PopInitLoop(w, rays, lo, mid)} })

PopInit(w, rays) ==
  Only({ IF w2.status # "running" THEN w2
         ELSE [w2 EXCEPT !.population = Sort(w2.organisms, @)] :
         w2 \in {PopInitLoop([w EXCEPT !.population = <<>>], rays, 1, Len(rays))} })

\* one pass of the loop of pop.reproduce on [w, out], out the list young
PopReproduceStep(r, N, rays, p) ==
  IF r.w.status # "running" THEN r
  ELSE Only({ IF q.w.status # "running" THEN [w |-> q.w, out |-> r.out]
              ELSE [w |-> q.w, out |-> r.out \o q.out] :
              q \in {OrganismReproduce(r.w, r.w.population[p],
                                       SubSeq(rays, (p - 1) * N + 1, p * N))} })

\* for organism in self.population, passes lo..hi in order
RECURSIVE PopReproduceLoop(_, _, _, _, _)
PopReproduceLoop(r, N, rays, lo, hi) ==
  IF lo > hi THEN r
  ELSE IF lo = hi THEN PopReproduceStep(r, N, rays, lo)
  ELSE LET mid == (lo + hi) \div 2 IN
       Only({ IF first.w.status # "running" THEN first
              ELSE PopReproduceLoop(first, N, rays, mid + 1, hi) :
              first \in {PopReproduceLoop(r, N, rays, lo, mid)} })

PopReproduce_NoSort(w, N, rays) ==
  Only({ IF r.w.status # "running" THEN r.w
         ELSE [r.w EXCEPT !.population = @ \o r.out] :
         r \in {PopReproduceLoop([w |-> w, out |-> <<>>], N, rays, 1, Len(w.population))} })

PopReproduce_NoExtend(w, N, rays) ==
  Only({ IF r.w.status # "running" THEN r.w
         ELSE [r.w EXCEPT !.population = Sort(r.w.organisms, r.out)] :
         r \in {PopReproduceLoop([w |-> w, out |-> <<>>], N, rays, 1, Len(w.population))} })

PopReproduce(w, N, rays) ==
  Only({ IF r.w.status # "running" THEN r.w
         ELSE [r.w EXCEPT !.population = Sort(r.w.organisms, @ \o r.out)] :
         r \in {PopReproduceLoop([w |-> w, out |-> <<>>], N, rays, 1, Len(w.population))} })

\* one pass of the loop of pop.retire at position i (1-based)
RetireStep(w, i) ==
  IF w.status # "running" THEN w
  ELSE IF i > Len(w.population) THEN [w EXCEPT !.status = "IndexError"]
  ELSE IF w.organisms[w.population[i]].reproduced
       THEN ListPop(OrganismDie(w, w.population[i]), i)
       ELSE w

\* for i in range(len-1, -1, -1): passes hi down to lo
RECURSIVE RetireLoop(_, _, _)
RetireLoop(w, hi, lo) ==
  IF lo > hi THEN w
  ELSE IF lo = hi THEN RetireStep(w, lo)
  ELSE LET mid == (lo + hi) \div 2 IN
       Only({ IF first.status # "running" THEN first
              ELSE RetireLoop(first, mid, lo) :
              first \in {RetireLoop(w, hi, mid + 1)} })

PopRetire_SkipLast(w) == RetireLoop(w, Len(w.population) - 1, 1)

PopRetire(w) == RetireLoop(w, Len(w.population), 1)

\* one pass of the loop of pop.select: die and pop at position idx (1-based)
SelectStep(w, idx) ==
  IF w.status # "running" THEN w
  ELSE IF idx > Len(w.population) THEN [w EXCEPT !.status = "IndexError"]
  ELSE ListPop(OrganismDie(w, w.population[idx]), idx)

\* for i in range(Nselected): n passes
RECURSIVE SelectLoop(_, _, _)
SelectLoop(w, n, idx) ==
  IF n <= 0 THEN w
  ELSE IF n = 1 THEN SelectStep(w, idx)
  ELSE Only({ IF first.status # "running" THEN first
              ELSE SelectLoop(first, n - n \div 2, idx) :
              first \in {SelectLoop(w, n \div 2, idx)} })

PopSelect_NoCheck(w, fraction) ==
  SelectLoop(w, PyInt(fraction.num * Len(w.population), fraction.den), 2)

PopSelect_Front(w, fraction) ==
  IF 0 <= fraction.num /\ fraction.num <= fraction.den
  THEN SelectLoop(w, PyInt(fraction.num * Len(w.population), fraction.den), 1)
  ELSE [w EXCEPT !.status = "exit_fraction"]

PopSelect(w, fraction) ==
  IF 0 <= fraction.num /\ fraction.num <= fraction.den
  THEN SelectLoop(w, PyInt(fraction.num * Len(w.population), fraction.den), 2)
  ELSE [w EXCEPT !.status = "exit_fraction"]

-----------------------------------------------------------------------------
(* State machine: any sequence of operations on one pop object *)

World == [organisms |-> organisms, population |-> population, proxies |-> proxies,
          status |-> status, ctor |-> ctor, died |-> <<>>]

Before(op, N, fraction) ==
  [op |-> op, N |-> N, fraction |-> fraction,
   pre |-> population, preOrgs |-> organisms, preProxies |-> proxies]

NoFraction == [num |-> 0, den |-> 1]

Commit(w, op, N, fraction) ==
  /\ organisms' = w.organisms
  /\ population' = w.population
  /\ proxies' = w.proxies
  /\ status' = w.status
  /\ ctor' = w.ctor
  /\ died' = w.died
  /\ lastOp' = Before(op, N, fraction)
  /\ nops' = nops + 1

Init ==
  /\ organisms = <<>>
  /\ population = <<>>
  /\ proxies = 0
  /\ status = "running"
  /\ ctor = [before |-> 0, hit |-> TRUE]
  /\ lastOp = [op |-> "none", N |-> 0, fraction |-> NoFraction,
               pre |-> <<>>, preOrgs |-> <<>>, preProxies |-> 0]
  /\ died = <<>>
  /\ pc = "new"
  /\ iter = 0
  /\ kframe = 0
  /\ rng = 0
  /\ nops = 0

Create ==
  /\ pc = "new" /\ status = "running"
  /\ \E N \in 0..MaxFounders : \E rays \in [1..N -> Rays] :
       \E w \in {PopInit(World, rays)} : Commit(w, "init", N, NoFraction)
  /\ pc' = "live"
  /\ UNCHANGED <<iter, kframe, rng>>

Reproduce ==
  /\ pc = "live" /\ status = "running" /\ nops < MaxOps
  /\ \E N \in 0..MaxKids :
       /\ Len(organisms) + Len(population) * N <= MaxOrgs
       /\ \E rays \in [1..(Len(population) * N) -> Rays] :
            \E w \in {PopReproduce(World, N, rays)} :
               Commit(w, "reproduce", N, NoFraction)
  /\ UNCHANGED <<pc, iter, kframe, rng>>

Retire ==
  /\ pc = "live" /\ status = "running" /\ nops < MaxOps
  /\ \E w \in {PopRetire(World)} : Commit(w, "retire", 0, NoFraction)
  /\ UNCHANGED <<pc, iter, kframe, rng>>

Select ==
  /\ pc = "live" /\ status = "running" /\ nops < MaxOps
  /\ \E f \in Fractions : \E w \in {PopSelect(World, f)} : Commit(w, "select", 0, f)
  /\ UNCHANGED <<pc, iter, kframe, rng>>

Next == Create \/ Reproduce \/ Retire \/ Select

Spec == Init /\ [][Next]_vars

-----------------------------------------------------------------------------
(* The module-level driver: pop(30), then four generations *)

\* random.gauss: the value drawn at position c of the generator's stream
RngDraw(c) == ((((c * c) % 65536) * 25173) + (c % 65536) * 13849) % 65536

\* organism(x, y): two draws give the point; the ray misses beyond the
\* far corner of the landscape, elsewhere it yields the height there
RngRay(r1, r2) ==
  LET x == (r1 \div 256) - 128
      y == (r2 \div 256) - 128
  IN IF x = -128 /\ y < -64
     THEN [hit |-> FALSE, z |-> 0]
     ELSE [hit |-> TRUE, z |-> ((x + 128) \div 8 + (y + 128) \div 8) % (MaxHeight + 1)]

\* the generator after count organisms have been placed
RngAdvance(r, count) == r + 2 * count

\* the rays of the next count organisms
RngRays(r, count) ==
  [k \in 1..count |-> RngRay(RngDraw(r + 2 * k - 1), RngDraw(r + 2 * k))]

DriverFounders == 30
DriverKids == 5
DriverRounds == 4
DriverFraction == [num |-> 8, den |-> 10]
DriverFirstFrame == 30
DriverFrameStep == 30

InitDriver ==
  /\ organisms = <<>>
  /\ population = <<>>
  /\ proxies = 0
  /\ status = "running"
  /\ ctor = [before |-> 0, hit |-> TRUE]
  /\ lastOp = [op |-> "none", N |-> 0, fraction |-> NoFraction,
               pre |-> <<>>, preOrgs |-> <<>>, preProxies |-> 0]
  /\ died = <<>>
  /\ pc = "create"
  /\ iter = 0
  /\ kframe = 0
  /\ rng \in {2000 * seed : seed \in 1..NumSeeds}
  /\ nops = 0

DriverCreate ==
  /\ pc = "create" /\ status = "running"
  /\ \E rays \in {RngRays(rng, DriverFounders)} : \E w \in {PopInit(World, rays)} :
       Commit(w, "init", DriverFounders, NoFraction)
  /\ rng' = RngAdvance(rng, proxies' - proxies)
  /\ pc' = "reproduce"
  /\ iter' = 0
  /\ kframe' = DriverFirstFrame

DriverReproduce ==
  /\ pc = "reproduce" /\ status = "running"
  /\ \E rays \in {RngRays(rng, Len(population) * DriverKids)} :
       \E w \in {PopReproduce(World, DriverKids, rays)} :
          Commit(w, "reproduce", DriverKids, NoFraction)
  /\ rng' = RngAdvance(rng, proxies' - proxies)
  /\ pc' = "retire"
  /\ UNCHANGED <<iter, kframe>>

DriverRetire ==
  /\ pc = "retire" /\ status = "running"
  /\ \E w \in {PopRetire(World)} : Commit(w, "retire", 0, NoFraction)
  /\ pc' = "select"
  /\ UNCHANGED <<iter, kframe, rng>>

DriverSelect ==
  /\ pc = "select" /\ status = "running"
  /\ \E w \in {PopSelect(World, DriverFraction)} : Commit(w, "select", 0, DriverFraction)
  /\ pc' = "print"
  /\ UNCHANGED <<iter, kframe, rng>>

\* population.print(); kframe += 30; next i of range(4)
DriverPrint ==
  /\ pc = "print" /\ status = "running"
  /\ kframe' = kframe + DriverFrameStep
  /\ IF iter + 1 < DriverRounds
     THEN iter' = iter + 1 /\ pc' = "reproduce"
     ELSE iter' = iter /\ pc' = "done"
  /\ UNCHANGED <<organisms, population, proxies, status, ctor, lastOp, died, rng, nops>>

NextDriver == DriverCreate \/ DriverReproduce \/ DriverRetire \/ DriverSelect \/ DriverPrint

SpecDriver == InitDriver /\ [][NextDriver]_vars /\ WF_vars(NextDriver)

-----------------------------------------------------------------------------
(* Properties *)

InPop(id) == \E i \in 1..Len(population) : population[i] = id
Members(s) == {s[i] : i \in 1..Len(s)}
IsSorted(orgs, s) ==
  \A i \in 1..Len(s) : \A j \in 1..Len(s) :
     i < j => orgs[s[i]].fitness <= orgs[s[j]].fitness
NoDuplicates(s) == \A i \in 1..Len(s) : \A j \in 1..Len(s) : s[i] = s[j] => i = j

SelectInRange ==
  /\ lastOp.op = "select"
  /\ 0 <= lastOp.fraction.num
  /\ lastOp.fraction.num <= lastOp.fraction.den
SelectOutOfRange ==
  /\ lastOp.op = "select"
  /\ (lastOp.fraction.num < 0 \/ lastOp.fraction.num > lastOp.fraction.den)

\* floor(f * n) for a fraction f in [0, 1]
FloorOf(f, n) == CHOOSE k \in 0..n : k * f.den <= f.num * n /\ f.num * n < (k + 1) * f.den

\* C1: for every fraction in [0, 1] and every population size, select
\* completes normally, calls die on exactly floor(f*n) members and leaves
\* exactly n - floor(f*n) members.
C1_SelectRemovesFloor ==
  SelectInRange =>
    LET n == Len(lastOp.pre)
        k == FloorOf(lastOp.fraction, n)
    IN /\ status = "running"
       /\ Len(died) = k
       /\ Len(population) = n - k

\* C2: after a select that completed on a sorted population, the removed
\* members are the floor(f*n) lowest: every removed member has fitness at
\* most the fitness of every member that remains.
C2_SelectRemovesLowest ==
  (SelectInRange /\ status = "running" /\ IsSorted(lastOp.preOrgs, lastOp.pre)) =>
    /\ Len(died) = FloorOf(lastOp.fraction, Len(lastOp.pre))
    /\ \A r \in Members(died) : \A m \in Members(population) :
         organisms[r].fitness <= organisms[m].fitness

\* C3: reproduce(N) on M members, every raycast hitting, leaves M + M*N
\* members: every original member and N new offspring of each; originals
\* are flagged reproduced, offspring are not.
C3_ReproduceGrows ==
  (lastOp.op = "reproduce" /\ status = "running") =>
    LET M == Len(lastOp.pre)
        N == lastOp.N
        olds == Members(lastOp.pre)
    IN /\ Len(population) = M + M * N
       /\ NoDuplicates(population)
       /\ olds \subseteq Members(population)
       /\ \A id \in olds :
            /\ organisms[id].reproduced
            /\ Cardinality({c \in Members(population) :
                              /\ c > Len(lastOp.preOrgs)
                              /\ organisms[c].parent = id}) = N
       /\ \A c \in Members(population) \ olds : ~organisms[c].reproduced

FlaggedBefore(id) == lastOp.preOrgs[id].reproduced

\* C4: after retire no remaining member is flagged, the count dropped by the
\* number of flagged members, the unflagged members remain in their order,
\* and die was called exactly once on each flagged member.
C4_RetireRemovesFlagged ==
  lastOp.op = "retire" =>
    LET flagged == {i \in 1..Len(lastOp.pre) : FlaggedBefore(lastOp.pre[i])}
    IN /\ status = "running"
       /\ \A i \in 1..Len(population) : ~organisms[population[i]].reproduced
       /\ Len(population) = Len(lastOp.pre) - Cardinality(flagged)
       /\ population = SelectSeq(lastOp.pre, LAMBDA id : ~FlaggedBefore(id))
       /\ Len(died) = Cardinality(flagged)
       /\ \A i \in flagged :
            Cardinality({j \in 1..Len(died) : died[j] = lastOp.pre[i]}) = 1

\* C5: select with a fraction outside [0, 1] terminates the process and
\* leaves the population unchanged; die is called on no member.
C5_SelectRejectsFraction ==
  SelectOutOfRange =>
    /\ status = "exit_fraction"
    /\ population = lastOp.pre
    /\ organisms = lastOp.preOrgs
    /\ died = <<>>

\* C6: the population list is sorted ascending by fitness after each of
\* __init__, reproduce, retire and select, for any sequence of them.
C6_SortedAfterEveryOperation ==
  (lastOp.op \in {"init", "reproduce", "retire", "select"} /\ status = "running") =>
    IsSorted(organisms, population)

\* C7: an organism constructed where the ray misses terminates the process
\* before a proxy is created: the scene holds as many proxies as before the
\* call, also for an offspring in the middle of pop.reproduce.
C7_MissCreatesNoProxy ==
  status = "exit_landscape" =>
    /\ ~ctor.hit
    /\ proxies = ctor.before
    /\ proxies = Len(organisms)

\* C8: select never removes the member at index 0: the lowest member before
\* the call is still first after it, and each removal took the member then
\* at index 1.
C8_SelectSparesFirst ==
  (SelectInRange /\ Len(lastOp.pre) >= 1) =>
    /\ Len(population) >= 1
    /\ population[1] = lastOp.pre[1]
    /\ \A m \in Members(lastOp.pre) :
         lastOp.preOrgs[lastOp.pre[1]].fitness <= lastOp.preOrgs[m].fitness
    /\ \A j \in 1..Len(died) : died[j] = lastOp.pre[j + 1]

Dead(id) == organisms[id].dieCalls >= 1

\* C9: death is terminal: die is called at most once on an organism, a dead
\* organism is not in the population list, and it never reproduces afterward.
C9_DeathIsTerminal ==
  /\ [](\A id \in 1..Len(organisms) :
          /\ organisms[id].dieCalls <= 1
          /\ Dead(id) => ~InPop(id))
  /\ [][\A id \in 1..Len(organisms) :
          Dead(id) => /\ organisms'[id].reproCalls = organisms[id].reproCalls
                      /\ \A c \in 1..Len(organisms') :
                           c > Len(organisms) => organisms'[c].parent # id]_vars

\* C10: in the driver, when every raycast hits, the population has exactly
\* 30 members, none flagged, at the end of each of the four iterations, and
\* the loop reaches its end after the fourth iteration.
C10_DriverKeepsThirty ==
  /\ []((pc \in {"print", "done"} /\ status = "running") =>
          /\ Len(population) = DriverFounders
          /\ \A i \in 1..Len(population) : ~organisms[population[i]].reproduced)
  /\ [](pc = "done" => (iter = DriverRounds - 1 /\ nops = 1 + 3 * DriverRounds))
  /\ [](status \in {"running", "exit_landscape"})
  /\ <>(pc = "done" \/ status = "exit_landscape")

-----------------------------------------------------------------------------
(* Reachable cases *)

C3_Witness ==
  /\ lastOp.op = "reproduce" /\ status = "running"
  /\ lastOp.N = 2 /\ Len(lastOp.pre) >= 2

C4_Witness ==
  /\ lastOp.op = "retire"
  /\ Len(lastOp.pre) >= 4
  /\ FlaggedBefore(lastOp.pre[1]) /\ FlaggedBefore(lastOp.pre[2])
  /\ FlaggedBefore(lastOp.pre[Len(lastOp.pre)])
  /\ Len(population) >= 2

C5_Witness ==
  /\ SelectOutOfRange /\ status = "exit_fraction"
  /\ lastOp.fraction.num > lastOp.fraction.den
  /\ Len(lastOp.pre) >= 2

C6_Witness ==
  /\ lastOp.op = "reproduce" /\ status = "running"
  /\ \E i \in 1..Len(population) : \E j \in 1..Len(population) :
       /\ i < j
       /\ population[i] > Len(lastOp.preOrgs)
       /\ population[j] <= Len(lastOp.preOrgs)

C7_Witness ==
  /\ status = "exit_landscape"
  /\ lastOp.op = "reproduce"
  /\ proxies > lastOp.preProxies

C8_Witness ==
  /\ SelectInRange
  /\ Len(died) >= 1
  /\ organisms[lastOp.pre[1]].fitness < organisms[died[1]].fitness

C9_Witness ==
  /\ lastOp.op = "reproduce"
  /\ Len(organisms) > Len(lastOp.preOrgs)
  /\ \E id \in 1..Len(lastOp.preOrgs) : lastOp.preOrgs[id].dieCalls = 1

C10_Witness ==
  /\ pc = "done" /\ status = "running"
  /\ iter = DriverRounds - 1
  /\ Len(population) = DriverFounders

====
